---- MODULE Spec2Model ----
(***************************************************************************)
(* Model of the data-ngin ingestion pipeline:                              *)
(*   - Orchestrator.run / retrieve_and_process_data (src/orchestrator.py)  *)
(*   - TimescaleDBInserter.connect / insert_data / close                   *)
(*   - BatchDownloadDatabentoFetcher.generate_batches                      *)
(*   - DatabentoCleaner.apply_back_adjustment                              *)
(***************************************************************************)
EXTENDS Integers, Sequences, FiniteSets, TLC

(***************************************************************************)
(* Bounds                                                                  *)
(***************************************************************************)
NumInstruments == 2
MaxTime == 2          \* timestamps of rows offered to the inserter
MaxBatchRows == 2     \* rows in one insert_data call
MaxInsertCalls == 2   \* insert_data calls in one inserter session
MaxHalfUnits == 6     \* start and end range over 0..MaxHalfUnits half units
MaxUnits == 3         \* largest max_units_allowed
MaxBatches == 8       \* windows after which a non-advancing loop is cut off
MaxSeries == 3        \* rows of a frame passed to apply_back_adjustment
MaxVolume == 3        \* volumes range over 1..MaxVolume
Resolution == 2       \* clock ticks per second
MaxRetries == 2       \* max_retries ranges over 0..MaxRetries
MaxInterval == 2      \* retry_interval ranges over 1..MaxInterval
MaxAttempts == 4      \* connect() calls after which a stream is cut off
MaxRecords == 2       \* records one stream yields
MaxDay == 2           \* dates range over days 1..MaxDay
MaxFrameRows == 3     \* rows of a frame passed to clean
MaxCatalogRows == 3   \* rows of the instrument catalog
MaxWindowRows == 2    \* rows one fetch_data call returns
MaxExpectedRows == 2  \* largest value of config expected_rows_per_asset

(***************************************************************************)
(* Orchestrator state                                                      *)
(***************************************************************************)
VARIABLES
    config_batch,        \* config["batch_downloading"]["batch"]
    expected_rows,       \* config.get("expected_rows_per_asset", 0)
    DATA_COMPLETENESS,   \* gauge per symbol: <<>> (not set) or <<ratio>>
    runPc,               \* position of Orchestrator.run
    runExc,              \* exception that escaped run() ("none" if none)
    pc,                  \* position of each instrument task
    running,             \* task holding the event loop (0 = none)
    exc,                 \* exception in flight in each task
    raw_data,            \* frame returned by the fetcher, per task
    cleaned_data,        \* rows returned by the cleaner, per task
    connection,          \* self.inserter.connection (0 = None)
    openConns,           \* connections open on the database server
    rawTable,            \* persisted rows of config.database.raw_table
    cleanTable,          \* persisted rows of config.database.table
    STAGE_ERRORS,        \* counter labelled by <<stage, exc_type>>
    LAST_SUCCESSFUL_RUN, \* number of times the gauge was set
    log                  \* per instrument: the stage events of its task

orchVars == <<config_batch, expected_rows, DATA_COMPLETENESS, runPc, runExc, pc, running, exc, raw_data,
              cleaned_data, connection, openConns, rawTable, cleanTable,
              STAGE_ERRORS, LAST_SUCCESSFUL_RUN, log>>

\* TimescaleDBInserter driven directly (uses connection, openConns, cleanTable)
VARIABLES
    insData,             \* rows passed to the last insert_data call
    insExc,              \* its outcome ("none" or the exception type)
    insCalls             \* number of insert_data calls made

insVars == <<insData, insExc, insCalls>>

\* BatchDownloadDatabentoFetcher.generate_batches
VARIABLES
    gb_start,            \* start_date
    gb_end,              \* end_date
    gb_unit,             \* unit
    gb_max,              \* max_units_allowed
    gbPc,                \* "call", "loop", "returned" or "raised"
    gbExc,               \* exception raised by the call
    current_ts,          \* loop variable
    batches              \* windows appended so far

gbVars == <<gb_start, gb_end, gb_unit, gb_max, gbPc, gbExc, current_ts, batches>>

\* DatabentoCleaner.apply_back_adjustment
VARIABLES
    adj_in,              \* the time-sorted frame passed in
    adj_out,             \* the frame returned
    adjPc                \* "call" or "done"

adjVars == <<adj_in, adj_out, adjPc>>

\* DatabentoFetcher (streaming): stream_data consumed by a caller, and close
VARIABLES
    max_retries,         \* self.max_retries
    retry_interval,      \* self.retry_interval
    should_reconnect,    \* self.should_reconnect
    client,              \* self.client (0 = None)
    retry_count,         \* local retry_count of stream_data
    stPc,                \* position of the generator
    stream_end,          \* how the generator ended, as its consumer sees it
    attempts,            \* number of connect() calls made
    waits,               \* the arguments of asyncio.sleep, in order
    yielded,             \* number of records yielded
    connected,           \* whether some connect() call succeeded
    failed,              \* failed sessions since the last yielded record
    closed,              \* whether close() was called
    gave_up              \* whether the retry budget was exhausted

stVars == <<max_retries, retry_interval, should_reconnect, client, retry_count,
            stPc, stream_end, attempts, waits, yielded, connected, failed,
            closed, gave_up>>

\* Orchestrator.__init__
VARIABLES
    bindings,            \* config[stage] for the four stages
    ctorPc,              \* "init", "constructed" or "raised"
    ctorExc,             \* exception that escaped __init__
    resolved             \* the instances bound so far, in order

regVars == <<bindings, ctorPc, ctorExc, resolved>>

\* determine_date_range
VARIABLES
    cfg_start,           \* config["time_range"]["start_date"]
    cfg_end,             \* config["time_range"]["end_date"]
    access_class,        \* the DataAccess class in use
    store,               \* timestamps of the rows of the OHLCV table
    db_error,            \* whether the query of get_latest_date fails
    now,                 \* datetime.now()
    ddrPc,               \* "call" or "done"
    ddr_result           \* the exception raised, or the window returned

ddrVars == <<cfg_start, cfg_end, access_class, store, db_error, now, ddrPc,
             ddr_result>>

\* DatabentoCleaner.clean
VARIABLES
    cl_config,           \* self.config: the missing_data flags and custom_value
    cl_raw,              \* the frame passed to clean
    cl_data,             \* the local data, once validated
    clPc,                \* "call", "validate", "handle", "transform", "returned", "raised"
    clExc,               \* exception raised by clean
    cl_ran,              \* the stages entered, in order
    cl_out               \* the rows returned

clVars == <<cl_config, cl_raw, cl_data, clPc, clExc, cl_ran, cl_out>>

\* CSVLoader.load_symbols
VARIABLES
    csv_file,            \* state of the file at contract_path
    csv_rows,            \* the rows of the catalog, as read_csv returns them
    csvPc,               \* "call" or "done"
    csv_result           \* the exception raised, or the dictionary returned

csvVars == <<csv_file, csv_rows, csvPc, csv_result>>

\* the state of the components driven on their own
\* generate_and_fetch_data: position, the windows passed to fetch_data, the
\* number of rows each call returned, and the accumulated frame
VARIABLES gfPc, gf_calls, gf_rows, master_df

gfVars == <<gfPc, gf_calls, gf_rows, master_df>>

extVars == <<stVars, regVars, ddrVars, clVars, csvVars, gfVars>>

vars == <<orchVars, insVars, gbVars, adjVars, extVars>>

Instruments == 1..NumInstruments

Stages == {"loader", "fetcher", "cleaner", "inserter"}

\* the stages in the order __init__ resolves them
CtorOrder == <<"loader", "fetcher", "cleaner", "inserter">>

ExcTypes == {"Exception", "ValueError", "ConnectionError", "DatabaseError",
             "RuntimeError", "IndexError"}

(***************************************************************************)
(* Rows and tables.  A table has primary key (time, symbol).               *)
(***************************************************************************)
Key(r) == <<r.time, r.symbol>>

EmptyTable == [k \in {} |-> 0]

\* variant: ON CONFLICT (time, symbol) DO UPDATE
InsertRow_Overwrite(t, r) ==
    [k \in DOMAIN t \cup {Key(r)} |-> IF k = Key(r) THEN r ELSE t[k]]

\* One row of INSERT ... ON CONFLICT DO NOTHING
InsertRow(t, r) == IF Key(r) \in DOMAIN t THEN t ELSE t @@ (Key(r) :> r)

\* cursor.executemany(query, data) over the first n rows
RECURSIVE ExecuteMany(_, _, _)
ExecuteMany(t, data, n) ==
    IF n = 0 THEN t ELSE InsertRow(ExecuteMany(t, data, n - 1), data[n])

\* Answers of the database to one insert_data call: every statement
\* succeeds, the schema or table is not found, or the at-th statement of
\* the batch raises.
DbAnswers(data) ==
    {[ans |-> "ok", at |-> 0], [ans |-> "missing", at |-> 0]}
    \cup {[ans |-> "error", at |-> k] : k \in 1..Len(data)}

\* variant: an empty row list is accepted and nothing is executed
insert_data_AcceptsEmpty(conn, t, data, db) ==
    IF conn = 0 THEN [table |-> t, exc |-> "RuntimeError"]
    ELSE IF db.ans = "missing" THEN [table |-> t, exc |-> "RuntimeError"]
    ELSE IF data = <<>> THEN [table |-> t, exc |-> "none"]
    ELSE IF db.ans = "ok" THEN [table |-> ExecuteMany(t, data, Len(data)), exc |-> "none"]
    ELSE [table |-> ExecuteMany(t, data, db.at - 1), exc |-> "RuntimeError"]

\* TimescaleDBInserter.insert_data.  The connection is in autocommit mode,
\* so the rows before a failing statement stay persisted and rollback()
\* undoes nothing.
insert_data(conn, t, data, db) ==
    IF conn = 0 THEN [table |-> t, exc |-> "RuntimeError"]
    ELSE IF db.ans = "missing" THEN [table |-> t, exc |-> "RuntimeError"]
    ELSE IF data = <<>> THEN [table |-> t, exc |-> "IndexError"]
    ELSE IF db.ans = "ok" THEN [table |-> ExecuteMany(t, data, Len(data)), exc |-> "none"]
    ELSE [table |-> ExecuteMany(t, data, db.at - 1), exc |-> "RuntimeError"]

\* variant: the reference is dropped without closing the connection
close_NoRelease(conn, open) == [connection |-> 0, open |-> open]

\* TimescaleDBInserter.close
close(conn, open) ==
    IF conn # 0 THEN [connection |-> 0, open |-> open \ {conn}]
    ELSE [connection |-> conn, open |-> open]

(***************************************************************************)
(* DatabentoCleaner                                                        *)
(***************************************************************************)
\* roll point at (1-based) index i
IsRoll(data, i) ==
    /\ data[i].symbol # data[i - 1].symbol
    /\ data[i].volume > data[i - 1].volume

\* the loop that fills roll_factors, run over indices 2..n
RECURSIVE roll_factors(_, _)
roll_factors(data, n) ==
    IF n < 2 THEN <<>>
    ELSE LET prev == roll_factors(data, n - 1)
         IN  IF IsRoll(data, n)
             THEN Append(prev, <<n, data[n - 1].close - data[n].open>>)
             ELSE prev

\* variant: roll_idx >= i
RECURSIVE cum_adj_Inclusive(_, _, _)
cum_adj_Inclusive(rf, i, k) ==
    IF k = 0 THEN 0
    ELSE cum_adj_Inclusive(rf, i, k - 1) + (IF rf[k][1] >= i THEN rf[k][2] ELSE 0)

\* sum(adj for (roll_idx, adj) in roll_factors if roll_idx > i)
RECURSIVE cum_adj(_, _, _)
cum_adj(rf, i, k) ==
    IF k = 0 THEN 0
    ELSE cum_adj(rf, i, k - 1) + (IF rf[k][1] > i THEN rf[k][2] ELSE 0)

apply_back_adjustment(data) ==
    LET rf == roll_factors(data, Len(data))
    IN  [j \in 1..Len(data) |->
            LET c == cum_adj(rf, j, Len(rf))
            IN  [time |-> data[j].time, symbol |-> data[j].symbol,
                 open |-> data[j].open, high |-> data[j].high,
                 low |-> data[j].low, close |-> data[j].close,
                 volume |-> data[j].volume,
                 back_adjusted_open |-> data[j].open + c,
                 back_adjusted_high |-> data[j].high + c,
                 back_adjusted_low |-> data[j].low + c,
                 back_adjusted_close |-> data[j].close + c]]

\* data.sort_values(by="time")
RECURSIVE InsertSorted(_, _)
InsertSorted(s, r) ==
    IF s = <<>> THEN <<r>>
    ELSE IF s[Len(s)].time <= r.time THEN Append(s, r)
    ELSE Append(InsertSorted(SubSeq(s, 1, Len(s) - 1), r), s[Len(s)])

RECURSIVE sort_values(_, _)
sort_values(data, n) ==
    IF n = 0 THEN <<>> ELSE InsertSorted(sort_values(data, n - 1), data[n])

transform_data(data) == apply_back_adjustment(sort_values(data, Len(data)))

\* DatabentoCleaner.clean on a frame [fields_ok, rows]
clean(frame) ==
    IF frame.rows = <<>> THEN [rows |-> <<>>, exc |-> "ValueError"]
    ELSE IF ~frame.fields_ok THEN [rows |-> <<>>, exc |-> "ValueError"]
    ELSE [rows |-> transform_data(frame.rows), exc |-> "none"]

(***************************************************************************)
(* Fetcher as seen by the orchestrator                                     *)
(***************************************************************************)
\* variant: each row keeps the symbol of the contract it came from
ProviderRows_PerContract(i) ==
    << [time |-> 1, symbol |-> i, open |-> 100, high |-> 101, low |-> 97,
        close |-> 100, volume |-> 1],
       [time |-> 2, symbol |-> i + NumInstruments, open |-> 98, high |-> 101,
        low |-> 97, close |-> 100, volume |-> 2] >>

\* rows the provider holds for instrument i (df["symbol"] = mapped_symbol)
ProviderRows(i) ==
    << [time |-> 1, symbol |-> i, open |-> 100, high |-> 101, low |-> 97,
        close |-> 100, volume |-> 1],
       [time |-> 2, symbol |-> i, open |-> 98, high |-> 101, low |-> 97,
        close |-> 100, volume |-> 2] >>

EmptyFrame == [fields_ok |-> TRUE, rows |-> <<>>]

\* frames fetch_data can return for instrument i
FetchFrames(i) ==
    { [fields_ok |-> TRUE, rows |-> ProviderRows(i)],
      [fields_ok |-> FALSE, rows |-> ProviderRows(i)],
      EmptyFrame }

(***************************************************************************)
(* Orchestrator                                                            *)
(***************************************************************************)
NoFrame == [fields_ok |-> FALSE, rows |-> <<>>]

\* the orchestrator after construction, before run(); the tables are
\* whatever earlier runs left
OrchStart ==
    /\ config_batch \in BOOLEAN
    /\ expected_rows \in 0..MaxExpectedRows
    /\ DATA_COMPLETENESS = [i \in Instruments |-> <<>>]
    /\ runPc = "start"
    /\ runExc = "none"
    /\ pc = [i \in Instruments |-> "new"]
    /\ running = 0
    /\ exc = [i \in Instruments |-> "none"]
    /\ raw_data = [i \in Instruments |-> NoFrame]
    /\ cleaned_data = [i \in Instruments |-> <<>>]
    /\ connection = 0
    /\ openConns = {}
    /\ STAGE_ERRORS = [l \in Stages \X ExcTypes |-> 0]
    /\ LAST_SUCCESSFUL_RUN = 0
    /\ log = [i \in Instruments |-> <<>>]

\* a first run: both tables are empty
OrchInit ==
    /\ OrchStart
    /\ rawTable = EmptyTable
    /\ cleanTable = EmptyTable

Inc(counter, stage, kind) ==
    [counter EXCEPT ![<<stage, kind>>] = @ + 1]

\* outcome is "ok" or the type of the exception the stage raised
Event(stage, outcome) == [stage |-> stage, outcome |-> outcome]

\* variant: except ValueError
Catches_OnlyValueError(kind) == kind = "ValueError"

\* "except Exception" of retrieve_and_process_data
Catches(kind) == kind \in ExcTypes

\* variant: a load_symbols failure is counted and the run goes on
RunLoad_Continue ==
    /\ runPc = "start"
    /\ \E o \in {"ok", "loader_raises", "date_range_raises"} :
         /\ runPc' = IF o = "date_range_raises" THEN "raised" ELSE "gather"
         /\ runExc' = CASE o = "ok" -> "none"
                        [] o = "loader_raises" -> "Exception"
                        [] OTHER -> "ValueError"
         /\ STAGE_ERRORS' = IF o = "loader_raises"
                            THEN Inc(STAGE_ERRORS, "loader", "Exception")
                            ELSE STAGE_ERRORS
    /\ UNCHANGED <<config_batch, expected_rows, DATA_COMPLETENESS, pc, running, exc, raw_data, cleaned_data,
                   connection, openConns, rawTable, cleanTable,
                   LAST_SUCCESSFUL_RUN, log>>

\* run(): load_symbols, determine_date_range, up to the gather
RunLoad ==
    /\ runPc = "start"
    /\ \E o \in {"ok", "loader_raises", "date_range_raises"} :
         /\ runPc' = IF o = "ok" THEN "gather" ELSE "raised"
         /\ runExc' = CASE o = "ok" -> "none"
                        [] o = "loader_raises" -> "Exception"
                        [] OTHER -> "ValueError"
         /\ STAGE_ERRORS' = IF o = "loader_raises"
                            THEN Inc(STAGE_ERRORS, "loader", "Exception")
                            ELSE STAGE_ERRORS
    /\ UNCHANGED <<config_batch, expected_rows, DATA_COMPLETENESS, pc, running, exc, raw_data, cleaned_data,
                   connection, openConns, rawTable, cleanTable,
                   LAST_SUCCESSFUL_RUN, log>>

\* STAGE_ERRORS after a fetch that raised kind
FetchErrorCount(counter, batch, kind) ==
    IF batch THEN Inc(counter, "fetcher", kind) ELSE counter

\* The task of instrument i starts and runs up to its first suspension:
\* the fetch raises before awaiting, returns an empty frame without
\* awaiting (batch mode, no window), or awaits the provider.
TaskStart(i) ==
    /\ runPc = "gather"
    /\ running = 0
    /\ pc[i] = "new"
    /\ \A j \in Instruments : j < i => pc[j] # "new"
    /\ \E o \in {"await", "raise"} \cup (IF config_batch THEN {"no_window"} ELSE {}) :
         CASE o = "await" ->
                /\ pc' = [pc EXCEPT ![i] = "await_fetch"]
                /\ UNCHANGED <<running, exc, raw_data, STAGE_ERRORS, log>>
           [] o = "raise" ->
                /\ pc' = [pc EXCEPT ![i] = "except"]
                /\ running' = i
                /\ exc' = [exc EXCEPT ![i] = "ValueError"]
                /\ STAGE_ERRORS' = FetchErrorCount(STAGE_ERRORS, config_batch, "ValueError")
                /\ log' = [log EXCEPT ![i] = Append(@, Event("fetch", "ValueError"))]
                /\ UNCHANGED raw_data
           [] OTHER ->
                /\ pc' = [pc EXCEPT ![i] = "connect"]
                /\ running' = i
                /\ raw_data' = [raw_data EXCEPT ![i] = EmptyFrame]
                /\ log' = [log EXCEPT ![i] = Append(@, Event("fetch", "ok"))]
                /\ UNCHANGED <<exc, STAGE_ERRORS>>
    /\ UNCHANGED <<config_batch, expected_rows, DATA_COMPLETENESS, runPc, runExc, cleaned_data, connection,
                   openConns, rawTable, cleanTable, LAST_SUCCESSFUL_RUN>>

\* The awaited fetch of instrument i completes: a frame or an exception.
FetchResume(i) ==
    /\ runPc = "gather"
    /\ running = 0
    /\ pc[i] = "await_fetch"
    /\ \A j \in Instruments : pc[j] # "new"
    /\ running' = i
    /\ \/ \E f \in FetchFrames(i) :
            /\ raw_data' = [raw_data EXCEPT ![i] = f]
            /\ pc' = [pc EXCEPT ![i] = "connect"]
            /\ log' = [log EXCEPT ![i] = Append(@, Event("fetch", "ok"))]
            /\ UNCHANGED <<exc, STAGE_ERRORS>>
       \/ /\ exc' = [exc EXCEPT ![i] = "Exception"]
          /\ pc' = [pc EXCEPT ![i] = "except"]
          /\ STAGE_ERRORS' = FetchErrorCount(STAGE_ERRORS, config_batch, "Exception")
          /\ log' = [log EXCEPT ![i] = Append(@, Event("fetch", "Exception"))]
          /\ UNCHANGED raw_data
    /\ UNCHANGED <<config_batch, expected_rows, DATA_COMPLETENESS, runPc, runExc, cleaned_data, connection,
                   openConns, rawTable, cleanTable, LAST_SUCCESSFUL_RUN>>

\* variant: connect() is awaited, the task is suspended with the connection open
TaskConnect_Yields(i) ==
    /\ running = i
    /\ pc[i] = "connect"
    /\ connection' = i
    /\ openConns' = openConns \cup {i}
    /\ running' = 0
    /\ exc' = [exc EXCEPT ![i] = "none"]
    /\ pc' = [pc EXCEPT ![i] = "insert_raw"]
    /\ log' = [log EXCEPT ![i] = Append(@, Event("connect", "ok"))]
    /\ UNCHANGED <<config_batch, expected_rows, DATA_COMPLETENESS, runPc, runExc, raw_data, cleaned_data,
                   rawTable, cleanTable, STAGE_ERRORS, LAST_SUCCESSFUL_RUN>>

\* self.inserter.connect(): "ok"; "operational" (psycopg2.OperationalError,
\* connection reset to None, ConnectionError raised); "other" (a statement
\* after psycopg2.connect raises another error, connection stays set).
TaskConnect(i) ==
    /\ running = i
    /\ pc[i] = "connect"
    /\ \E o \in {"ok", "operational", "other"} :
         /\ connection' = IF o = "operational" THEN 0 ELSE i
         /\ openConns' = IF o = "operational" THEN openConns ELSE openConns \cup {i}
         /\ exc' = [exc EXCEPT ![i] = CASE o = "ok" -> "none"
                                         [] o = "operational" -> "ConnectionError"
                                         [] OTHER -> "DatabaseError"]
         /\ pc' = [pc EXCEPT ![i] = IF o = "ok" THEN "insert_raw" ELSE "except"]
         /\ log' = [log EXCEPT ![i] =
                       Append(@, Event("connect", CASE o = "ok" -> "ok"
                                                    [] o = "operational" -> "ConnectionError"
                                                    [] OTHER -> "DatabaseError"))]
    /\ UNCHANGED <<config_batch, expected_rows, DATA_COMPLETENESS, runPc, runExc, running, raw_data, cleaned_data,
                   rawTable, cleanTable, STAGE_ERRORS, LAST_SUCCESSFUL_RUN>>

\* insert_data(raw_data.to_dict("records"), schema, raw_table)
TaskInsertRaw(i) ==
    /\ running = i
    /\ pc[i] = "insert_raw"
    /\ \E db \in DbAnswers(raw_data[i].rows) :
         LET r == insert_data(connection, rawTable, raw_data[i].rows, db)
         IN  /\ rawTable' = r.table
             /\ exc' = [exc EXCEPT ![i] = r.exc]
             /\ pc' = [pc EXCEPT ![i] = IF r.exc = "none" THEN "clean" ELSE "except"]
             /\ STAGE_ERRORS' = IF r.exc = "none" THEN STAGE_ERRORS
                                ELSE Inc(STAGE_ERRORS, "inserter", r.exc)
             /\ log' = [log EXCEPT ![i] =
                   Append(@, Event("insert_raw", IF r.exc = "none" THEN "ok" ELSE r.exc))]
    /\ UNCHANGED <<config_batch, expected_rows, DATA_COMPLETENESS, runPc, runExc, running, raw_data, cleaned_data,
                   connection, openConns, cleanTable, LAST_SUCCESSFUL_RUN>>

\* variant: the cleaner's exception is counted but not re-raised
TaskClean_Swallow(i) ==
    /\ running = i
    /\ pc[i] = "clean"
    /\ LET r == clean(raw_data[i])
       IN  /\ cleaned_data' = [cleaned_data EXCEPT ![i] = r.rows]
           /\ exc' = [exc EXCEPT ![i] = "none"]
           /\ pc' = [pc EXCEPT ![i] = "insert_clean"]
           /\ STAGE_ERRORS' = IF r.exc = "none" THEN STAGE_ERRORS
                              ELSE Inc(STAGE_ERRORS, "cleaner", r.exc)
           /\ log' = [log EXCEPT ![i] =
                 Append(@, Event("clean", IF r.exc = "none" THEN "ok" ELSE r.exc))]
    /\ UNCHANGED <<config_batch, expected_rows, DATA_COMPLETENESS, runPc, runExc, running, raw_data, connection,
                   openConns, rawTable, cleanTable, LAST_SUCCESSFUL_RUN>>

\* self.cleaner.clean(raw_data)
TaskClean(i) ==
    /\ running = i
    /\ pc[i] = "clean"
    /\ LET r == clean(raw_data[i])
       IN  /\ cleaned_data' = [cleaned_data EXCEPT ![i] = r.rows]
           /\ exc' = [exc EXCEPT ![i] = r.exc]
           /\ pc' = [pc EXCEPT ![i] = IF r.exc = "none" THEN "insert_clean" ELSE "except"]
           /\ STAGE_ERRORS' = IF r.exc = "none" THEN STAGE_ERRORS
                              ELSE Inc(STAGE_ERRORS, "cleaner", r.exc)
           /\ log' = [log EXCEPT ![i] =
                 Append(@, Event("clean", IF r.exc = "none" THEN "ok" ELSE r.exc))]
    /\ UNCHANGED <<config_batch, expected_rows, DATA_COMPLETENESS, runPc, runExc, running, raw_data, connection,
                   openConns, rawTable, cleanTable, LAST_SUCCESSFUL_RUN>>

\* completeness_ratio = n_cleaned / expected_rows, kept as a fraction
completeness_ratio(n_cleaned, expected) == [num |-> n_cleaned, den |-> expected]

\* insert_data(cleaned_data, schema, table), then the record count and the
\* completeness gauge
TaskInsertClean(i) ==
    /\ running = i
    /\ pc[i] = "insert_clean"
    /\ \E db \in DbAnswers(cleaned_data[i]) :
         LET r == insert_data(connection, cleanTable, cleaned_data[i], db)
         IN  /\ cleanTable' = r.table
             /\ exc' = [exc EXCEPT ![i] = r.exc]
             /\ pc' = [pc EXCEPT ![i] = IF r.exc = "none" THEN "finally" ELSE "except"]
             /\ STAGE_ERRORS' = IF r.exc = "none" THEN STAGE_ERRORS
                                ELSE Inc(STAGE_ERRORS, "inserter", r.exc)
             /\ log' = [log EXCEPT ![i] =
                   Append(@, Event("insert_clean", IF r.exc = "none" THEN "ok" ELSE r.exc))]
             /\ DATA_COMPLETENESS' =
                   IF r.exc = "none" /\ expected_rows > 0
                   THEN [DATA_COMPLETENESS EXCEPT ![i] =
                            <<completeness_ratio(Len(cleaned_data[i]), expected_rows)>>]
                   ELSE DATA_COMPLETENESS
    /\ UNCHANGED <<config_batch, expected_rows, runPc, runExc, running, raw_data,
                   cleaned_data, connection, openConns, rawTable,
                   LAST_SUCCESSFUL_RUN>>

\* except Exception as e: logging.error(...)
TaskExcept(i) ==
    /\ running = i
    /\ pc[i] = "except"
    /\ exc' = [exc EXCEPT ![i] = IF Catches(@) THEN "none" ELSE @]
    /\ pc' = [pc EXCEPT ![i] = "finally"]
    /\ UNCHANGED <<config_batch, expected_rows, DATA_COMPLETENESS, runPc, runExc, running, raw_data, cleaned_data,
                   connection, openConns, rawTable, cleanTable, STAGE_ERRORS,
                   LAST_SUCCESSFUL_RUN, log>>

\* finally: self.inserter.close(); the task ends
TaskFinally(i) ==
    /\ running = i
    /\ pc[i] = "finally"
    /\ LET c == close(connection, openConns)
       IN  /\ connection' = c.connection
           /\ openConns' = c.open
    /\ pc' = [pc EXCEPT ![i] = "done"]
    /\ running' = 0
    /\ log' = [log EXCEPT ![i] = Append(@, Event("close", "ok"))]
    /\ UNCHANGED <<config_batch, expected_rows, DATA_COMPLETENESS, runPc, runExc, exc, raw_data, cleaned_data,
                   rawTable, cleanTable, STAGE_ERRORS, LAST_SUCCESSFUL_RUN>>

\* variant: run() stops waiting at the first finished task
GatherReturn_FirstCompleted ==
    /\ runPc = "gather"
    /\ \E i \in Instruments : pc[i] = "done"
    /\ runPc' = "done"
    /\ LAST_SUCCESSFUL_RUN' = LAST_SUCCESSFUL_RUN + 1
    /\ UNCHANGED <<config_batch, expected_rows, DATA_COMPLETENESS, runExc, pc, running, exc, raw_data, cleaned_data,
                   connection, openConns, rawTable, cleanTable, STAGE_ERRORS, log>>

\* asyncio.gather returns (or re-raises a task's exception); on return
\* run() sets LAST_SUCCESSFUL_RUN
GatherReturn ==
    /\ runPc = "gather"
    /\ \A i \in Instruments : pc[i] = "done"
    /\ IF \E i \in Instruments : exc[i] # "none"
       THEN /\ runPc' = "raised"
            /\ runExc' = exc[CHOOSE i \in Instruments : exc[i] # "none"]
            /\ UNCHANGED LAST_SUCCESSFUL_RUN
       ELSE /\ runPc' = "done"
            /\ LAST_SUCCESSFUL_RUN' = LAST_SUCCESSFUL_RUN + 1
            /\ UNCHANGED runExc
    /\ UNCHANGED <<config_batch, expected_rows, DATA_COMPLETENESS, pc, running, exc, raw_data, cleaned_data,
                   connection, openConns, rawTable, cleanTable, STAGE_ERRORS, log>>

OrchNext ==
    \/ RunLoad
    \/ GatherReturn
    \/ \E i \in Instruments :
         \/ TaskStart(i)
         \/ FetchResume(i)
         \/ TaskConnect(i)
         \/ TaskInsertRaw(i)
         \/ TaskClean(i)
         \/ TaskInsertClean(i)
         \/ TaskExcept(i)
         \/ TaskFinally(i)

OrchIdle ==
    /\ config_batch = FALSE
    /\ expected_rows = 0
    /\ DATA_COMPLETENESS = [i \in Instruments |-> <<>>]
    /\ runPc = "idle"
    /\ runExc = "none"
    /\ pc = [i \in Instruments |-> "new"]
    /\ running = 0
    /\ exc = [i \in Instruments |-> "none"]
    /\ raw_data = [i \in Instruments |-> NoFrame]
    /\ cleaned_data = [i \in Instruments |-> <<>>]
    /\ rawTable = EmptyTable
    /\ STAGE_ERRORS = [l \in Stages \X ExcTypes |-> 0]
    /\ LAST_SUCCESSFUL_RUN = 0
    /\ log = [i \in Instruments |-> <<>>]

InsIdle == insData = <<>> /\ insExc = "none" /\ insCalls = 0

GbIdle ==
    /\ gb_start = 0 /\ gb_end = 0 /\ gb_unit = "min"
    /\ gb_max = [int |-> TRUE, val |-> 1]
    /\ gbPc = "idle" /\ gbExc = "none" /\ current_ts = 0 /\ batches = <<>>

AdjIdle == adj_in = <<>> /\ adj_out = <<>> /\ adjPc = "idle"

StIdle ==
    /\ max_retries = 0 /\ retry_interval = 1
    /\ should_reconnect = TRUE /\ client = 0 /\ retry_count = 0
    /\ stPc = "idle" /\ stream_end = "none"
    /\ attempts = 0 /\ waits = <<>> /\ yielded = 0
    /\ connected = FALSE /\ failed = 0 /\ closed = FALSE /\ gave_up = FALSE

\* the orchestrator as constructed from a configuration with four good bindings
RegIdle ==
    /\ bindings = [s \in Stages |->
                     [present |-> TRUE, class |-> "known", module |-> "known"]]
    /\ ctorPc = "constructed"
    /\ ctorExc = "none"
    /\ resolved = [k \in 1..4 |-> [stage |-> CtorOrder[k], instance |-> TRUE]]

DdrIdle ==
    /\ cfg_start = <<>> /\ cfg_end = <<>>
    /\ access_class = "src.modules.data_access"
    /\ store = {} /\ db_error = FALSE /\ now = 0
    /\ ddrPc = "idle"
    /\ ddr_result = [exc |-> "none", start |-> <<>>, end |-> <<>>]

ClIdle ==
    /\ cl_config = <<>> /\ cl_raw = <<>> /\ cl_data = <<>>
    /\ clPc = "idle" /\ clExc = "none" /\ cl_ran = <<>> /\ cl_out = <<>>

CsvIdle ==
    /\ csv_file = "ok" /\ csv_rows = <<>> /\ csvPc = "idle"
    /\ csv_result = [exc |-> "none", symbols |-> <<>>]

GfIdle == gfPc = "idle" /\ gf_calls = <<>> /\ gf_rows = <<>> /\ master_df = <<>>

ExtIdle == StIdle /\ RegIdle /\ DdrIdle /\ ClIdle /\ CsvIdle /\ GfIdle

(***************************************************************************)
(* The pipeline run                                                        *)
(***************************************************************************)
Init == OrchInit /\ InsIdle /\ GbIdle /\ AdjIdle /\ ExtIdle

Next == OrchNext /\ UNCHANGED <<insVars, gbVars, adjVars, extVars>>

Spec == Init /\ [][Next]_vars

(***************************************************************************)
(* A run over a date window that an earlier run has already persisted for  *)
(* some of the instruments                                                 *)
(***************************************************************************)
\* the table holding exactly the rows of the given frames
TableOf(frames) ==
    LET rows == UNION {{f[j] : j \in DOMAIN f} : f \in frames}
    IN  [k \in {Key(r) : r \in rows} |-> CHOOSE r \in rows : Key(r) = k]

RerunInit ==
    /\ OrchStart
    /\ \E S \in SUBSET Instruments :
         /\ rawTable = TableOf({ProviderRows(i) : i \in S})
         /\ cleanTable = TableOf({transform_data(ProviderRows(i)) : i \in S})
    /\ InsIdle /\ GbIdle /\ AdjIdle /\ ExtIdle

SpecRerun == RerunInit /\ [][Next]_vars

(***************************************************************************)
(* The inserter on its own: connect, insert_data, close in any order, over *)
(* every initial content of the table                                      *)
(***************************************************************************)
MkRow(t, s, o, c, v) ==
    [time |-> t, symbol |-> s, open |-> o, high |-> 101, low |-> 97,
     close |-> c, volume |-> v]

\* rows offered to the inserter: one per timestamp, and a second row with
\* other contents under the key of the first
InsRows == {MkRow(t, 1, 98, 100, 1) : t \in 1..MaxTime} \cup {MkRow(1, 1, 98, 99, 1)}

InsKeys == {Key(r) : r \in InsRows}

\* the tables over InsRows that respect the primary key
InsTables ==
    UNION { {t \in [K -> InsRows] : \A k \in K : Key(t[k]) = k} : K \in SUBSET InsKeys }

InsInit ==
    /\ OrchIdle /\ GbIdle /\ AdjIdle /\ InsIdle /\ ExtIdle
    /\ connection = 0
    /\ openConns = {}
    /\ cleanTable \in InsTables

InsConnect ==
    /\ \E o \in {"ok", "operational", "other"} :
         /\ connection' = IF o = "operational" THEN 0 ELSE 1
         /\ openConns' = IF o = "operational" THEN openConns ELSE openConns \cup {1}
    /\ UNCHANGED <<cleanTable, insVars>>

InsInsert ==
    /\ insCalls < MaxInsertCalls
    /\ \E n \in 0..MaxBatchRows : \E data \in [1..n -> InsRows] : \E db \in DbAnswers(data) :
         LET r == insert_data(connection, cleanTable, data, db)
         IN  /\ cleanTable' = r.table
             /\ insExc' = r.exc
             /\ insData' = data
    /\ insCalls' = insCalls + 1
    /\ UNCHANGED <<connection, openConns>>

InsClose ==
    /\ LET c == close(connection, openConns)
       IN  /\ connection' = c.connection
           /\ openConns' = c.open
    /\ UNCHANGED <<cleanTable, insVars>>

InsNext ==
    /\ \/ InsConnect
       \/ InsInsert
       \/ InsClose
    /\ UNCHANGED <<config_batch, expected_rows, DATA_COMPLETENESS, runPc, runExc, pc, running, exc, raw_data,
                   cleaned_data, rawTable, STAGE_ERRORS, LAST_SUCCESSFUL_RUN,
                   log, gbVars, adjVars, extVars>>

SpecInserter == InsInit /\ [][InsNext]_vars

(***************************************************************************)
(* The window planner: generate_batches over every start, end, unit and    *)
(* max_units_allowed.  A timestamp is a number of clock ticks; a formatted *)
(* timestamp is represented by the timestamp the string denotes.           *)
(***************************************************************************)
SecondTicks == Resolution
MinuteTicks == 60 * SecondTicks
HourTicks == 60 * MinuteTicks
DayTicks == 24 * HourTicks

Units == {"Daily", "hourly", "min", "weekly"}

\* unit.lower()
lower(u) == IF u = "Daily" THEN "daily" ELSE u

SupportedUnit(u) == lower(u) \in {"daily", "hourly", "min"}

\* ticks of one unit: pd.Timedelta(1, unit=time_unit)
UnitTicks(u) ==
    CASE lower(u) = "daily" -> DayTicks
      [] lower(u) = "hourly" -> HourTicks
      [] OTHER -> MinuteTicks

\* ts.strftime(date_format): '%Y-%m-%d' for daily, else '%Y-%m-%d %H:%M:%S'
strftime(ts, u) ==
    IF lower(u) = "daily" THEN (ts \div DayTicks) * DayTicks
    ELSE (ts \div SecondTicks) * SecondTicks

\* timestamps offered as start_date and end_date for unit u: multiples of
\* half a unit, with and without a sub-second part
TimePoints(u) ==
    {k * (UnitTicks(u) \div 2) + e : k \in 0..MaxHalfUnits, e \in {0, 1}}

\* values offered as max_units_allowed: integers, and one non-integer
MaxUnitsValues ==
    {[int |-> TRUE, val |-> v] : v \in (-1)..MaxUnits}
    \cup {[int |-> FALSE, val |-> 1]}

\* the call generate_batches("2023-01-01", "2023-01-10", "Daily", 3), days
\* counted from 2023-01-01
PlannerExample ==
    /\ gb_unit = "Daily"
    /\ gb_start = 0
    /\ gb_end = 9 * DayTicks
    /\ gb_max = [int |-> TRUE, val |-> 3]

\* the arguments of a generate_batches call, at its entry
GbStart ==
    /\ \/ /\ gb_unit \in Units
          /\ gb_start \in TimePoints(gb_unit)
          /\ gb_end \in TimePoints(gb_unit)
          /\ gb_max \in MaxUnitsValues
       \/ PlannerExample
    /\ gbPc = "call"
    /\ gbExc = "none"
    /\ current_ts = 0
    /\ batches = <<>>

GbInit ==
    /\ OrchIdle /\ InsIdle /\ AdjIdle /\ ExtIdle
    /\ connection = 0 /\ openConns = {} /\ cleanTable = EmptyTable
    /\ GbStart

\* entry of generate_batches up to the loop: parse, unit and type checks
GbCall ==
    /\ gbPc = "call"
    /\ IF ~SupportedUnit(gb_unit)
       THEN gbPc' = "raised" /\ gbExc' = "ValueError" /\ UNCHANGED current_ts
       ELSE IF ~gb_max.int
       THEN gbPc' = "raised" /\ gbExc' = "TypeError" /\ UNCHANGED current_ts
       ELSE gbPc' = "loop" /\ current_ts' = gb_start /\ UNCHANGED gbExc
    /\ UNCHANGED <<gb_start, gb_end, gb_unit, gb_max, batches>>

\* variant: the end date is the last day (unit) to cover
GbLoop_InclusiveEnd ==
    /\ gbPc = "loop"
    /\ current_ts < gb_end + UnitTicks(gb_unit)
    /\ Len(batches) < MaxBatches
    /\ LET last == gb_end + UnitTicks(gb_unit)
           delta == gb_max.val * UnitTicks(gb_unit)
           next == current_ts + delta
           batch_end == IF next > last THEN last ELSE next
       IN  /\ batches' = Append(batches, <<strftime(current_ts, gb_unit),
                                           strftime(batch_end, gb_unit)>>)
           /\ current_ts' = batch_end
    /\ UNCHANGED <<gb_start, gb_end, gb_unit, gb_max, gbPc, gbExc>>

\* one iteration of "while current_ts < end_ts"
GbLoop ==
    /\ gbPc = "loop"
    /\ current_ts < gb_end
    /\ Len(batches) < MaxBatches
    /\ LET delta == gb_max.val * UnitTicks(gb_unit)
           next == current_ts + delta
           batch_end == IF next > gb_end THEN gb_end ELSE next
       IN  /\ batches' = Append(batches, <<strftime(current_ts, gb_unit),
                                           strftime(batch_end, gb_unit)>>)
           /\ current_ts' = batch_end
    /\ UNCHANGED <<gb_start, gb_end, gb_unit, gb_max, gbPc, gbExc>>

\* the loop condition is false: return batches
GbReturn ==
    /\ gbPc = "loop"
    /\ ~(current_ts < gb_end)
    /\ gbPc' = "returned"
    /\ UNCHANGED <<gb_start, gb_end, gb_unit, gb_max, gbExc, current_ts, batches>>

GbNext ==
    /\ \/ GbCall
       \/ GbLoop
       \/ GbReturn
    /\ UNCHANGED <<orchVars, insVars, adjVars, extVars>>

SpecBatches == GbInit /\ [][GbNext]_vars

(***************************************************************************)
(* apply_back_adjustment over every short time-sorted frame                *)
(***************************************************************************)
AdjCells == [symbol : {1, 2}, close : {99, 100}, volume : 1..MaxVolume]

\* the frame whose cells are c: the rows arrive sorted by time
AdjFrame(c) ==
    [j \in DOMAIN c |-> MkRow(j, c[j].symbol, 98, c[j].close, c[j].volume)]

AdjInit ==
    /\ OrchIdle /\ InsIdle /\ GbIdle /\ ExtIdle
    /\ connection = 0 /\ openConns = {} /\ cleanTable = EmptyTable
    /\ \E n \in 0..MaxSeries : \E c \in [1..n -> AdjCells] : adj_in = AdjFrame(c)
    /\ adj_out = <<>>
    /\ adjPc = "call"

AdjApply ==
    /\ adjPc = "call"
    /\ adj_out' = apply_back_adjustment(adj_in)
    /\ adjPc' = "done"
    /\ UNCHANGED adj_in

AdjNext == AdjApply /\ UNCHANGED <<orchVars, insVars, gbVars, extVars>>

SpecBackAdjust == AdjInit /\ [][AdjNext]_vars

(***************************************************************************)
(* The streaming fetcher: one stream_data generator driven by its consumer, *)
(* who may call close() whenever the generator is suspended.  The provider  *)
(* decides the result of every connect(), start() and read.  A record that  *)
(* _process_record discards changes nothing and is not represented.         *)
(***************************************************************************)
StInit ==
    /\ OrchIdle /\ InsIdle /\ GbIdle /\ AdjIdle /\ RegIdle /\ DdrIdle /\ ClIdle
    /\ CsvIdle /\ GfIdle
    /\ connection = 0 /\ openConns = {} /\ cleanTable = EmptyTable
    /\ max_retries \in 0..MaxRetries
    /\ retry_interval \in 1..MaxInterval
    /\ should_reconnect = TRUE
    /\ client = 0
    /\ retry_count = 0
    /\ stPc = "while"
    /\ stream_end = "none"
    /\ attempts = 0 /\ waits = <<>> /\ yielded = 0
    /\ connected = FALSE /\ failed = 0 /\ closed = FALSE /\ gave_up = FALSE

\* variant: while True
StWhile_Unconditional ==
    /\ stPc = "while"
    /\ stPc' = "try" /\ UNCHANGED stream_end
    /\ UNCHANGED <<max_retries, retry_interval, should_reconnect, client,
                   retry_count, attempts, waits, yielded, connected, failed,
                   closed, gave_up>>

\* while self.should_reconnect: ... ; falling out of the loop ends the generator
StWhile ==
    /\ stPc = "while"
    /\ IF should_reconnect
         THEN stPc' = "try" /\ UNCHANGED stream_end
         ELSE stPc' = "done" /\ stream_end' = "StopAsyncIteration"
    /\ UNCHANGED <<max_retries, retry_interval, should_reconnect, client,
                   retry_count, attempts, waits, yielded, connected, failed,
                   closed, gave_up>>

\* if not self.client: await self.connect(symbols); retry_count = 0
\* connect can fail before the Live client exists or after (in subscribe)
StConnect ==
    /\ stPc = "try" /\ client = 0
    /\ attempts < MaxAttempts
    /\ attempts' = attempts + 1
    /\ \E o \in {"ok", "fail_live", "fail_subscribe"} :
         /\ client' = IF o = "fail_live" THEN 0 ELSE 1
         /\ retry_count' = IF o = "ok" THEN 0 ELSE retry_count
         /\ connected' = (connected \/ o = "ok")
         /\ stPc' = IF o = "ok" THEN "start" ELSE "except"
    /\ UNCHANGED <<max_retries, retry_interval, should_reconnect, stream_end,
                   waits, yielded, failed, closed, gave_up>>

\* self.client.start(), on the client just connected or on the one kept
\* from the previous pass of the loop
StStart ==
    /\ stPc = "start" \/ (stPc = "try" /\ client # 0)
    /\ \E o \in {"ok", "raises"} :
         stPc' = IF o = "ok" THEN "iter" ELSE "except"
    /\ UNCHANGED <<max_retries, retry_interval, should_reconnect, client,
                   retry_count, stream_end, attempts, waits, yielded,
                   connected, failed, closed, gave_up>>

\* for record in self.client: yield a processed record, fail, or run out
StIter ==
    /\ stPc = "iter"
    /\ \/ /\ yielded < MaxRecords
          /\ yielded' = yielded + 1
          /\ failed' = 0
          /\ stPc' = "yielded"
       \/ /\ stPc' = "except"
          /\ UNCHANGED <<yielded, failed>>
       \/ /\ stPc' = "while"
          /\ UNCHANGED <<yielded, failed>>
    /\ UNCHANGED <<max_retries, retry_interval, should_reconnect, client,
                   retry_count, stream_end, attempts, waits, connected,
                   closed, gave_up>>

\* the consumer asks for the next record
StResume ==
    /\ stPc = "yielded"
    /\ stPc' = "iter"
    /\ UNCHANGED <<max_retries, retry_interval, should_reconnect, client,
                   retry_count, stream_end, attempts, waits, yielded,
                   connected, failed, closed, gave_up>>

\* the except block: tear the client down, then back off or give up
StExcept_RetryForever ==
    /\ stPc = "except"
    /\ client' = 0
    /\ failed' = failed + 1
    /\ retry_count' = retry_count + 1
    /\ waits' = Append(waits, retry_interval * (retry_count + 1))
    /\ stPc' = "sleep"
    /\ UNCHANGED <<should_reconnect, gave_up, stream_end>>
    /\ UNCHANGED <<max_retries, retry_interval, attempts, yielded, connected,
                   closed>>

StExcept ==
    /\ stPc = "except"
    /\ client' = 0
    /\ failed' = failed + 1
    /\ IF retry_count < max_retries
         THEN /\ retry_count' = retry_count + 1
              /\ waits' = Append(waits, retry_interval * (retry_count + 1))
              /\ stPc' = "sleep"
              /\ UNCHANGED <<should_reconnect, gave_up, stream_end>>
         ELSE /\ should_reconnect' = FALSE
              /\ gave_up' = TRUE
              /\ stPc' = "done"
              /\ stream_end' = "StopAsyncIteration"
              /\ UNCHANGED <<retry_count, waits>>
    /\ UNCHANGED <<max_retries, retry_interval, attempts, yielded, connected,
                   closed>>

\* await asyncio.sleep(wait_time) returns
StWake ==
    /\ stPc = "sleep"
    /\ stPc' = "while"
    /\ UNCHANGED <<max_retries, retry_interval, should_reconnect, client,
                   retry_count, stream_end, attempts, waits, yielded,
                   connected, failed, closed, gave_up>>

\* the generator has not run yet: stream_data was not called or not iterated
NotStarted == stPc = "while" /\ attempts = 0 /\ failed = 0 /\ yielded = 0

\* variant: close() stops the client but keeps the reference
StClose_KeepsClient ==
    /\ stPc \in {"yielded", "sleep", "done"} \/ NotStarted
    /\ ~closed
    /\ should_reconnect' = FALSE
    /\ closed' = TRUE
    /\ UNCHANGED <<max_retries, retry_interval, client, retry_count, stPc,
                   stream_end, attempts, waits, yielded, connected, failed,
                   gave_up>>

\* close(), called once, while the generator is suspended (not yet started,
\* at a yield, in the backoff sleep) or after it ended
StClose ==
    /\ stPc \in {"yielded", "sleep", "done"} \/ NotStarted
    /\ ~closed
    /\ should_reconnect' = FALSE
    /\ client' = 0
    /\ closed' = TRUE
    /\ UNCHANGED <<max_retries, retry_interval, retry_count, stPc, stream_end,
                   attempts, waits, yielded, connected, failed, gave_up>>

StNext ==
    /\ \/ StWhile
       \/ StConnect
       \/ StStart
       \/ StIter
       \/ StResume
       \/ StExcept
       \/ StWake
       \/ StClose
    /\ UNCHANGED <<orchVars, insVars, gbVars, adjVars, regVars, ddrVars, clVars,
                   csvVars, gfVars>>

SpecStream == StInit /\ [][StNext]_vars

(***************************************************************************)
(* The process from its start: Orchestrator(config) resolves the four      *)
(* stage bindings, and only a constructed orchestrator can run().          *)
(***************************************************************************)
\* config[module_key]: absent, or present with a class name (None when the
\* class key is absent) and a module that importlib can or cannot import;
\* class "unknown" is a name the module does not define
Bindings ==
    [present : BOOLEAN, class : {"None", "known", "unknown"},
     module : {"known", "unknown"}]

\* variant: a binding that cannot be resolved yields no instance and no error
get_instance_Lazy(b) ==
    IF b.present /\ b.class = "known" /\ b.module = "known"
      THEN [exc |-> "none", instance |-> TRUE]
      ELSE [exc |-> "none", instance |-> FALSE]

\* get_instance(config, module_key, "class") for the binding b
get_instance(b) ==
    CASE ~b.present -> [exc |-> "ValueError", instance |-> FALSE]
      [] b.class = "None" -> [exc |-> "ValueError", instance |-> FALSE]
      [] b.module = "unknown" \/ b.class = "unknown" ->
             [exc |-> "ImportError", instance |-> FALSE]
      [] OTHER -> [exc |-> "none", instance |-> TRUE]

RegInit ==
    /\ bindings \in [Stages -> Bindings]
    /\ ctorPc = "init"
    /\ ctorExc = "none"
    /\ resolved = <<>>

ProcInit ==
    /\ OrchInit /\ InsIdle /\ GbIdle /\ AdjIdle /\ StIdle /\ DdrIdle /\ ClIdle
    /\ CsvIdle /\ GfIdle
    /\ RegInit

\* one get_instance call of __init__ (lines 46-49); the first that raises
\* ends the construction, the fourth that returns completes it
CtorResolve ==
    /\ ctorPc = "init"
    /\ LET stage == CtorOrder[Len(resolved) + 1]
           r == get_instance(bindings[stage])
       IN  IF r.exc # "none"
             THEN /\ ctorPc' = "raised"
                  /\ ctorExc' = r.exc
                  /\ UNCHANGED resolved
             ELSE /\ resolved' = Append(resolved, [stage |-> stage, instance |-> r.instance])
                  /\ ctorPc' = IF Len(resolved) + 1 = 4 THEN "constructed" ELSE "init"
                  /\ UNCHANGED ctorExc
    /\ UNCHANGED <<bindings, orchVars>>

\* run() and the instrument tasks, on a constructed orchestrator
ProcRun ==
    /\ ctorPc = "constructed"
    /\ OrchNext
    /\ UNCHANGED regVars

ProcNext ==
    /\ \/ CtorResolve
       \/ ProcRun
    /\ UNCHANGED <<insVars, gbVars, adjVars, stVars, ddrVars, clVars, csvVars, gfVars>>

SpecProcess == ProcInit /\ [][ProcNext]_vars

(***************************************************************************)
(* determine_date_range over every configuration, store content and clock. *)
(* A date string is represented by the timestamp of its midnight; an       *)
(* optional value is a sequence of length 0 (None or empty) or 1.          *)
(***************************************************************************)
\* the dates a configuration can name
Dates == {d * DayTicks : d \in 1..MaxDay}

\* timestamps of persisted rows and of the clock: midnight or later in a day
Instants == {d + o : d \in Dates, o \in {0, HourTicks}}

\* the two DataAccess classes of the repository: the one dynamic_loader
\* imports (data.modules.data_access) defines no get_latest_date
AccessClasses == {"data.modules.data_access", "src.modules.data_access"}

Max(S) == CHOOSE x \in S : \A y \in S : y <= x

\* DataAccess.get_latest_date: the date of the newest row, None for an empty
\* table, and None as well after a logged SQLAlchemyError
get_latest_date(cls, rows, error) ==
    CASE cls = "data.modules.data_access" -> [exc |-> "AttributeError", date |-> <<>>]
      [] error \/ rows = {} -> [exc |-> "none", date |-> <<>>]
      [] OTHER -> [exc |-> "none", date |-> <<strftime(Max(rows), "Daily")>>]

determine_date_range(start_cfg, end_cfg, cls, rows, error, clock) ==
    LET latest == get_latest_date(cls, rows, error)
        end == IF end_cfg # <<>> THEN end_cfg ELSE <<strftime(clock, "Daily")>>
    IN  CASE start_cfg # <<>> -> [exc |-> "none", start |-> start_cfg, end |-> end]
          [] latest.exc # "none" -> [exc |-> latest.exc, start |-> <<>>, end |-> <<>>]
          [] latest.date # <<>> ->
                 [exc |-> "none", start |-> <<latest.date[1] + DayTicks>>, end |-> end]
          [] OTHER -> [exc |-> "ValueError", start |-> <<>>, end |-> <<>>]

DdrInit ==
    /\ OrchIdle /\ InsIdle /\ GbIdle /\ AdjIdle /\ StIdle /\ RegIdle /\ ClIdle
    /\ CsvIdle /\ GfIdle
    /\ connection = 0 /\ openConns = {} /\ cleanTable = EmptyTable
    /\ cfg_start \in {<<>>} \cup {<<d>> : d \in Dates}
    /\ cfg_end \in {<<>>} \cup {<<d>> : d \in Dates}
    /\ access_class \in AccessClasses
    /\ store \in SUBSET Instants
    /\ db_error \in BOOLEAN
    /\ now \in Instants
    /\ ddrPc = "call"
    /\ ddr_result = [exc |-> "none", start |-> <<>>, end |-> <<>>]

DdrCall ==
    /\ ddrPc = "call"
    /\ ddr_result' = determine_date_range(cfg_start, cfg_end, access_class,
                                          store, db_error, now)
    /\ ddrPc' = "done"
    /\ UNCHANGED <<cfg_start, cfg_end, access_class, store, db_error, now>>

DdrNext ==
    DdrCall /\ UNCHANGED <<orchVars, insVars, gbVars, adjVars, stVars, regVars,
                           clVars, csvVars, gfVars>>

SpecDateRange == DdrInit /\ [][DdrNext]_vars

(***************************************************************************)
(* DatabentoCleaner.clean, stage by stage, over raw frames that differ in  *)
(* the name and place of the timestamp, in the columns they lack and in    *)
(* the cells that are null, under every configuration of the missing-data  *)
(* methods whose results are integers (interpolate, mean_fill and          *)
(* median_fill stay "False").                                              *)
(***************************************************************************)
\* [field.value for field in RequiredFields]
RequiredFields == {"time", "symbol", "open", "high", "low", "close", "volume"}

\* columns handle_missing_data selects as numeric
NumericFields == {"open", "high", "low", "close", "volume"}

\* NaN / None in a cell
Null == 0 - 1

\* the keys of method_switch, in its order
MethodOrder ==
    <<"drop_nan", "forward_fill", "backward_fill", "interpolate", "zero_fill",
      "mean_fill", "median_fill", "custom_fill">>

IntegerMethods ==
    {"drop_nan", "forward_fill", "backward_fill", "zero_fill", "custom_fill"}

\* the row of position j with the cells named in nulls set to null
RawRow(j, nulls) ==
    [c \in RequiredFields |->
        IF c \in nulls THEN Null
        ELSE CASE c = "time" -> j
               [] c = "symbol" -> 1
               [] c = "open" -> 98
               [] c = "high" -> 101
               [] c = "low" -> 97
               [] c = "close" -> 100
               [] OTHER -> 1]

NullPatterns == {{}, {"open"}, {"symbol"}, {"open", "volume"}}

\* the order of the timestamps of a raw frame: rising, falling (as in
\* test_transform_data), or rising with every timestamp on two rows
TimeOrders == {"ascending", "descending", "paired"}

\* the timestamp of row j of an n-row frame
RowTime(order, j, n) ==
    CASE order = "ascending" -> j
      [] order = "descending" -> n + 1 - j
      [] OTHER -> (j + 1) \div 2

\* the sets of required fields a raw frame can lack
DropChoices ==
    {{}} \cup {{c} : c \in RequiredFields} \cup {{"symbol", "close", "volume"}}

\* a raw frame: the timestamp is the column "time", the column "ts_event"
\* or the index "ts_event"; cells holds the values of the fields present
RawFrame(naming, dropped, cells) ==
    [index |-> IF naming = "index" /\ "time" \notin dropped
                 THEN "ts_event" ELSE "RangeIndex",
     columns |-> ((RequiredFields \ dropped) \ {"time"})
                 \cup (IF "time" \in dropped \/ naming = "index" THEN {}
                       ELSE IF naming = "ts_event" THEN {"ts_event"}
                       ELSE {"time"}),
     cells |-> cells]

\* variant: only the timestamp is required
validate_fields_TimeOnly(frame) ==
    LET reset == IF frame.index = "ts_event"
                   THEN frame.columns \cup {"ts_event"} ELSE frame.columns
        renamed == IF "ts_event" \in reset
                     THEN (reset \ {"ts_event"}) \cup {"time"} ELSE reset
    IN  [exc |-> IF "time" \in renamed THEN "none" ELSE "ValueError",
         columns |-> renamed]

\* validate_fields: reset_index, rename ts_event to time, check the fields
validate_fields(frame) ==
    LET reset == IF frame.index = "ts_event"
                   THEN frame.columns \cup {"ts_event"} ELSE frame.columns
        renamed == IF "ts_event" \in reset
                     THEN (reset \ {"ts_event"}) \cup {"time"} ELSE reset
        missing_fields == RequiredFields \ renamed
    IN  [exc |-> IF missing_fields # {} THEN "ValueError" ELSE "none",
         columns |-> renamed]

HasNull(r) == \E c \in DOMAIN r : r[c] = Null

KeepRow(r) == ~HasNull(r)

\* variant: d.dropna(subset=numeric_columns)
dropna_NumericOnly(d) ==
    SelectSeq(d, LAMBDA r : \A c \in NumericFields : r[c] # Null)

\* d.dropna(): the rows without a null in any column
dropna(d) == SelectSeq(d, KeepRow)

Min(S) == CHOOSE x \in S : \A y \in S : x <= y

\* d.ffill(): a null cell takes the last non-null value above it
ffill(d) ==
    [j \in DOMAIN d |->
        [c \in DOMAIN d[j] |->
            LET above == {k \in 1..j : d[k][c] # Null}
            IN  IF above = {} THEN Null ELSE d[Max(above)][c]]]

\* d.bfill(): a null cell takes the first non-null value below it
bfill(d) ==
    [j \in DOMAIN d |->
        [c \in DOMAIN d[j] |->
            LET below == {k \in j..Len(d) : d[k][c] # Null}
            IN  IF below = {} THEN Null ELSE d[Min(below)][c]]]

\* d.fillna(v)
fillna(d, v) ==
    [j \in DOMAIN d |-> [c \in DOMAIN d[j] |-> IF d[j][c] = Null THEN v ELSE d[j][c]]]

\* method_switch[method](d)
method_switch(method, d, custom_value) ==
    CASE method = "drop_nan" -> dropna(d)
      [] method = "forward_fill" -> ffill(d)
      [] method = "backward_fill" -> bfill(d)
      [] method = "zero_fill" -> fillna(d, 0)
      [] method = "custom_fill" -> fillna(d, custom_value)

\* the loop of handle_missing_data over the first n methods
RECURSIVE handle_missing_data(_, _, _)
handle_missing_data(config, d, n) ==
    IF n = 0 THEN d
    ELSE LET prev == handle_missing_data(config, d, n - 1)
         IN  IF config.missing_data[MethodOrder[n]] = "True"
               THEN method_switch(MethodOrder[n], prev, config.custom_value)
               ELSE prev

\* transform_data on validated rows: astype(int) rejects a null volume
TransformRaises(d) == \E j \in DOMAIN d : d[j].volume = Null

ClInit ==
    /\ OrchIdle /\ InsIdle /\ GbIdle /\ AdjIdle /\ StIdle /\ RegIdle /\ DdrIdle
    /\ CsvIdle /\ GfIdle
    /\ connection = 0 /\ openConns = {} /\ cleanTable = EmptyTable
    /\ \E enabled \in SUBSET IntegerMethods :
         cl_config = [missing_data |->
                         [m \in {MethodOrder[k] : k \in DOMAIN MethodOrder} |->
                             IF m \in enabled THEN "True" ELSE "False"],
                      custom_value |-> 5]
    /\ \E naming \in {"time", "ts_event", "index"} : \E dropped \in DropChoices :
         \E n \in 0..MaxFrameRows : \E nulls \in [1..n -> NullPatterns] :
           \E order \in TimeOrders :
            cl_raw = RawFrame(naming, dropped,
                              [j \in 1..n |-> RawRow(RowTime(order, j, n), nulls[j])])
    /\ cl_data = <<>>
    /\ clPc = "call"
    /\ clExc = "none"
    /\ cl_ran = <<>>
    /\ cl_out = <<>>

\* clean: if data.empty: raise ValueError
ClEnter ==
    /\ clPc = "call"
    /\ IF cl_raw.cells = <<>> \/ cl_raw.columns = {}
         THEN clPc' = "raised" /\ clExc' = "ValueError"
         ELSE clPc' = "validate" /\ UNCHANGED clExc
    /\ UNCHANGED <<cl_config, cl_raw, cl_data, cl_ran, cl_out>>

\* data = self.validate_fields(data)
ClValidate ==
    /\ clPc = "validate"
    /\ cl_ran' = Append(cl_ran, "validate_fields")
    /\ LET v == validate_fields(cl_raw)
       IN  IF v.exc # "none"
             THEN clPc' = "raised" /\ clExc' = v.exc /\ UNCHANGED cl_data
             ELSE clPc' = "handle" /\ cl_data' = cl_raw.cells /\ UNCHANGED clExc
    /\ UNCHANGED <<cl_config, cl_raw, cl_out>>

\* data = self.handle_missing_data(data)
ClHandleMissing ==
    /\ clPc = "handle"
    /\ cl_ran' = Append(cl_ran, "handle_missing_data")
    /\ cl_data' = handle_missing_data(cl_config, cl_data, Len(MethodOrder))
    /\ clPc' = "transform"
    /\ UNCHANGED <<cl_config, cl_raw, clExc, cl_out>>

\* data = self.transform_data(data); return data.to_dict(orient="records")
ClTransform ==
    /\ clPc = "transform"
    /\ cl_ran' = Append(cl_ran, "transform_data")
    /\ IF TransformRaises(cl_data)
         THEN clPc' = "raised" /\ clExc' = "ValueError" /\ UNCHANGED cl_out
         ELSE clPc' = "returned" /\ cl_out' = transform_data(cl_data) /\ UNCHANGED clExc
    /\ UNCHANGED <<cl_config, cl_raw, cl_data>>

ClNext ==
    /\ \/ ClEnter
       \/ ClValidate
       \/ ClHandleMissing
       \/ ClTransform
    /\ UNCHANGED <<orchVars, insVars, gbVars, adjVars, stVars, regVars, ddrVars,
                   csvVars, gfVars>>

SpecCleaner == ClInit /\ [][ClNext]_vars

(***************************************************************************)
(* CSVLoader.load_symbols over every short catalog.  A symbol cell is its  *)
(* text without surrounding blanks (name) and the number of blanks around  *)
(* it (pad); the text NaN is what read_csv takes as a null.                *)
(***************************************************************************)
SymbolCells ==
    {[name |-> n, pad |-> p] : n \in {"ES", "NQ"}, p \in {0, 1}}
    \cup {[name |-> "NaN", pad |-> 0]}

CatalogRows == [dataSymbol : SymbolCells, instrumentType : {"FUTURE", "future"}]

\* what the loader finds at contract_path
FileStates == {"absent", "empty", "malformed", "no_columns", "ok"}

\* Series.str.strip() on one cell
strip(cell) == [name |-> cell.name, pad |-> 0]

\* Series.str.upper() on one cell
upper(type) == IF type = "future" THEN "FUTURE" ELSE type

\* contracts_df["dataSymbol"].duplicated().any(), on the cells as read
duplicated(rows) ==
    \E i, j \in DOMAIN rows : i < j /\ rows[i].dataSymbol = rows[j].dataSymbol

\* contracts_df["dataSymbol"].isnull().any()
isnull(rows) == \E i \in DOMAIN rows : rows[i].dataSymbol.name = "NaN"

\* dict(zip(symbols, types)): a later row replaces an earlier one of its key
symbol_dict(rows) ==
    [k \in {strip(rows[i].dataSymbol).name : i \in DOMAIN rows} |->
        LET last == Max({i \in DOMAIN rows : strip(rows[i].dataSymbol).name = k})
        IN  upper(rows[last].instrumentType)]

load_symbols(file, rows) ==
    CASE file = "absent" -> [exc |-> "FileNotFoundError", symbols |-> <<>>]
      [] file \in {"empty", "malformed", "no_columns"} ->
             [exc |-> "ValueError", symbols |-> <<>>]
      [] duplicated(rows) -> [exc |-> "ValueError", symbols |-> <<>>]
      [] isnull(rows) -> [exc |-> "ValueError", symbols |-> <<>>]
      [] OTHER -> [exc |-> "none", symbols |-> symbol_dict(rows)]

CsvInit ==
    /\ OrchIdle /\ InsIdle /\ GbIdle /\ AdjIdle /\ StIdle /\ RegIdle /\ DdrIdle
    /\ ClIdle /\ GfIdle
    /\ connection = 0 /\ openConns = {} /\ cleanTable = EmptyTable
    /\ csv_file \in FileStates
    /\ \E n \in 0..MaxCatalogRows : csv_rows \in [1..n -> CatalogRows]
    /\ csvPc = "call"
    /\ csv_result = [exc |-> "none", symbols |-> <<>>]

CsvLoad ==
    /\ csvPc = "call"
    /\ csv_result' = load_symbols(csv_file, csv_rows)
    /\ csvPc' = "done"
    /\ UNCHANGED <<csv_file, csv_rows>>

CsvNext ==
    CsvLoad /\ UNCHANGED <<orchVars, insVars, gbVars, adjVars, stVars, regVars,
                           ddrVars, clVars, gfVars>>

SpecLoader == CsvInit /\ [][CsvNext]_vars

(***************************************************************************)
(* BatchDownloadDatabentoFetcher.generate_and_fetch_data                   *)
(***************************************************************************)
\* the rows the k-th fetch_data call returns when it returns r rows
WindowRows(k, r) == [m \in 1..r |-> [window |-> k, n |-> m]]

GfInit ==
    /\ OrchIdle /\ InsIdle /\ AdjIdle /\ StIdle /\ RegIdle /\ DdrIdle /\ ClIdle
    /\ CsvIdle
    /\ connection = 0 /\ openConns = {} /\ cleanTable = EmptyTable
    /\ GbStart
    /\ gfPc = "call"
    /\ gf_calls = <<>>
    /\ gf_rows = <<>>
    /\ master_df = <<>>

\* batches = self.generate_batches(start_date, end_date, unit, max_units_allowed)
GfPlan ==
    /\ gfPc = "call"
    /\ \/ GbCall
       \/ GbLoop
       \/ GbReturn
    /\ UNCHANGED gfVars

\* generate_batches raised: the exception leaves generate_and_fetch_data
GfPlanRaises ==
    /\ gfPc = "call"
    /\ gbPc = "raised"
    /\ gfPc' = "raised"
    /\ UNCHANGED <<gf_calls, gf_rows, master_df, gbVars>>

\* variant: master_df = pd.concat([master_df, data])
GfFetch_Append ==
    /\ gfPc = "call"
    /\ gbPc = "returned"
    /\ Len(gf_calls) < Len(batches)
    /\ LET k == Len(gf_calls) + 1
       IN  /\ gf_calls' = Append(gf_calls, batches[k])
           /\ \/ \E r \in 0..MaxWindowRows :
                   /\ gf_rows' = Append(gf_rows, r)
                   /\ master_df' = master_df \o WindowRows(k, r)
                   /\ UNCHANGED gfPc
              \/ /\ gfPc' = "raised"
                 /\ UNCHANGED <<gf_rows, master_df>>
    /\ UNCHANGED gbVars

\* one pass of "for batch in batches": data = await self.fetch_data(...)
\* returns a frame or raises; master_df = pd.concat([data, master_df])
GfFetch ==
    /\ gfPc = "call"
    /\ gbPc = "returned"
    /\ Len(gf_calls) < Len(batches)
    /\ LET k == Len(gf_calls) + 1
       IN  /\ gf_calls' = Append(gf_calls, batches[k])
           /\ \/ \E r \in 0..MaxWindowRows :
                   /\ gf_rows' = Append(gf_rows, r)
                   /\ master_df' = WindowRows(k, r) \o master_df
                   /\ UNCHANGED gfPc
              \/ /\ gfPc' = "raised"
                 /\ UNCHANGED <<gf_rows, master_df>>
    /\ UNCHANGED gbVars

\* return master_df
GfReturn ==
    /\ gfPc = "call"
    /\ gbPc = "returned"
    /\ Len(gf_calls) = Len(batches)
    /\ gfPc' = "returned"
    /\ UNCHANGED <<gf_calls, gf_rows, master_df, gbVars>>

GfNext ==
    /\ \/ GfPlan
       \/ GfPlanRaises
       \/ GfFetch
       \/ GfReturn
    /\ UNCHANGED <<orchVars, insVars, adjVars, stVars, regVars, ddrVars, clVars,
                   csvVars>>

SpecBatchFetch == GfInit /\ [][GfNext]_vars

(***************************************************************************)
(* Properties of the orchestrator                                          *)
(***************************************************************************)
StageOrder == <<"fetch", "connect", "insert_raw", "clean", "insert_clean">>

Raised(i) == \E k \in DOMAIN log[i] : log[i][k].outcome # "ok"

RaisedAt(i, stage) ==
    \E k \in DOMAIN log[i] : log[i][k].stage = stage /\ log[i][k].outcome # "ok"

AllTasksDone == \A i \in Instruments : pc[i] = "done"

\* every stage of instrument i ran and the task closed
RanAllStages(i) ==
    /\ Len(log[i]) = 6
    /\ \A k \in 1..5 : log[i][k] = Event(StageOrder[k], "ok")
    /\ log[i][6] = Event("close", "ok")

\* the rows fetched for i are in both tables
Persisted(i) ==
    /\ \A k \in DOMAIN raw_data[i].rows :
         LET r == raw_data[i].rows[k]
         IN  Key(r) \in DOMAIN rawTable /\ rawTable[Key(r)] = r
    /\ \A k \in DOMAIN cleaned_data[i] :
         LET r == cleaned_data[i][k]
         IN  Key(r) \in DOMAIN cleanTable /\ cleanTable[Key(r)] = r
    /\ Len(raw_data[i].rows) > 0
    /\ Len(cleaned_data[i]) = Len(raw_data[i].rows)

\* C1: failure isolation.  Whatever stage an instrument raises at, its
\* exception is caught inside its own task (no finished task holds an
\* exception), every instrument that did not raise ran all its stages and
\* has its rows in the raw and clean tables, and run() raises only when the
\* catalog or date range failed before any task was started.
C1_FailureIsolation ==
    /\ \A i \in Instruments : pc[i] \in {"finally", "done"} => exc[i] = "none"
    /\ runPc = "raised" => \A i \in Instruments : pc[i] = "new"
    /\ runExc # "none" => \A i \in Instruments : pc[i] = "new"
    /\ \A i \in Instruments :
         (pc[i] = "done" /\ ~Raised(i)) => (RanAllStages(i) /\ Persisted(i))
    /\ AllTasksDone => \A i \in Instruments :
         ~Raised(i) => (RanAllStages(i) /\ Persisted(i))

C1_Witness ==
    /\ runPc = "done"
    /\ \E i, j \in Instruments :
         /\ RaisedAt(i, "insert_raw")
         /\ ~Raised(j)
         /\ Persisted(j)

\* C2: the last-successful-run timestamp is set at most once, only when
\* every instrument task has finished and closed, and it is set when run()
\* returns whether or not instruments failed.
C2_LastRunOnceAfterAll ==
    /\ LAST_SUCCESSFUL_RUN <= 1
    /\ LAST_SUCCESSFUL_RUN = 1 =>
         /\ AllTasksDone
         /\ \A i \in Instruments : log[i][Len(log[i])].stage = "close"
    /\ runPc \in {"start", "gather", "raised"} => LAST_SUCCESSFUL_RUN = 0
    /\ runPc = "done" => LAST_SUCCESSFUL_RUN = 1

C2_Witness ==
    /\ runPc = "done"
    /\ LAST_SUCCESSFUL_RUN = 1
    /\ \E i, j \in Instruments : Raised(i) /\ ~Raised(j)

CloseCount(i) ==
    Cardinality({k \in DOMAIN log[i] : log[i][k].stage = "close"})

C4_StageOrder ==
    \A i \in Instruments : \A k \in DOMAIN log[i] :
        IF log[i][k].stage = "close"
        THEN /\ k = Len(log[i])
             /\ k > 1
             /\ k = 6 \/ log[i][k - 1].outcome # "ok"
        ELSE /\ k <= 5
             /\ log[i][k].stage = StageOrder[k]
             /\ \A m \in 1..(k - 1) : log[i][m].outcome = "ok"

C4_Witness ==
    \E i, j \in Instruments :
        /\ RanAllStages(i)
        /\ Len(log[j]) = 5 /\ RaisedAt(j, "clean")

\* C5: for each exception type, the 'fetcher' error counter equals the
\* number of instruments whose fetch raised that type, with batch
\* downloading enabled or disabled.
C5_FetchErrorCounted ==
    \A k \in ExcTypes :
        STAGE_ERRORS[<<"fetcher", k>>] =
            Cardinality({i \in Instruments :
                            \E n \in DOMAIN log[i] : log[i][n] = Event("fetch", k)})

(***************************************************************************)
(* Properties of the inserter                                              *)
(***************************************************************************)
\* C6: an insert_data call leaves every row already in the table as it
\* was, adds only rows of the row set under keys that were absent, after a
\* successful call every key of the row set is in the table, and a second
\* successful insert of the same row set leaves the table as the first
\* left it.
C6_UpsertNoOp ==
    [][insCalls' = insCalls + 1 =>
        /\ \A k \in DOMAIN cleanTable :
             k \in DOMAIN cleanTable' /\ cleanTable'[k] = cleanTable[k]
        /\ \A k \in DOMAIN cleanTable' \ DOMAIN cleanTable :
             \E n \in DOMAIN insData' : cleanTable'[k] = insData'[n]
        /\ insExc' = "none" =>
             \A n \in DOMAIN insData' : Key(insData'[n]) \in DOMAIN cleanTable'
        /\ (insCalls >= 1 /\ insExc = "none" /\ insExc' = "none" /\ insData' = insData) =>
             cleanTable' = cleanTable
    ]_vars

\* a second successful insert whose row set meets a key persisted with
\* other contents
C6_Witness ==
    /\ insCalls = 2
    /\ insExc = "none"
    /\ \E n \in DOMAIN insData :
         /\ Key(insData[n]) \in DOMAIN cleanTable
         /\ cleanTable[Key(insData[n])] # insData[n]

(***************************************************************************)
(* Properties of the window planner                                        *)
(***************************************************************************)
CeilDiv(a, b) == (a + b - 1) \div b

PositiveInt(m) == m.int /\ m.val > 0

\* C7: for start < end, a supported unit and a positive integer
\* max_units_allowed, the returned windows start at start, end at end, are
\* contiguous, each non-empty and at most max_units_allowed units long, and
\* there are ceil((end - start) / max_units_allowed) of them.
C7_WindowCoverage ==
    (gbPc = "returned" /\ gb_start < gb_end /\ PositiveInt(gb_max)) =>
        LET n == Len(batches)
            span == gb_max.val * UnitTicks(gb_unit)
        IN  /\ n = CeilDiv(gb_end - gb_start, span)
            /\ batches[1][1] = gb_start
            /\ batches[n][2] = gb_end
            /\ \A k \in 1..(n - 1) : batches[k][2] = batches[k + 1][1]
            /\ \A k \in 1..n :
                 /\ batches[k][1] < batches[k][2]
                 /\ batches[k][2] - batches[k][1] <= span

\* C8: for start < end and a supported unit, a max_units_allowed that is
\* not a positive integer makes the call raise without producing a window.
C8_BadMaxRaises ==
    (gb_start < gb_end /\ SupportedUnit(gb_unit) /\ ~PositiveInt(gb_max) /\ gbPc # "call") =>
        (gbPc = "raised" /\ batches = <<>>)

(***************************************************************************)
(* Properties of the back-adjustment                                       *)
(***************************************************************************)
\* C9: at every roll point i of the input, the adjusted series is
\* continuous: back_adjusted_close[i-1] = back_adjusted_open[i].
C9_Continuity ==
    adjPc = "done" =>
        \A i \in 2..Len(adj_in) :
            (adj_in[i].symbol # adj_in[i - 1].symbol /\ adj_in[i].volume > adj_in[i - 1].volume)
                => adj_out[i - 1].back_adjusted_close = adj_out[i].back_adjusted_open

RECURSIVE SumOver(_, _)
SumOver(S, f) ==
    IF S = {} THEN 0
    ELSE LET x == CHOOSE x \in S : TRUE IN f[x] + SumOver(S \ {x}, f)

\* the roll indices after row j, and the gap at each index, as the
\* specification states them
RollsAfter(data, j) ==
    {i \in (j + 1)..Len(data) :
        i > 1 /\ data[i].symbol # data[i - 1].symbol /\ data[i].volume > data[i - 1].volume}

Gap(data) == [i \in 2..Len(data) |-> data[i - 1].close - data[i].open]

\* C10: every back_adjusted_{open,high,low,close}[j] is the raw price plus
\* the sum of close[i-1] - open[i] over the roll points i > j; rows at or
\* after the last roll keep their raw prices; the other columns and the row
\* count are unchanged.
C10_Formula ==
    adjPc = "done" =>
        /\ Len(adj_out) = Len(adj_in)
        /\ \A j \in 1..Len(adj_in) :
             LET c == SumOver(RollsAfter(adj_in, j), Gap(adj_in))
             IN  /\ adj_out[j].back_adjusted_open = adj_in[j].open + c
                 /\ adj_out[j].back_adjusted_high = adj_in[j].high + c
                 /\ adj_out[j].back_adjusted_low = adj_in[j].low + c
                 /\ adj_out[j].back_adjusted_close = adj_in[j].close + c
                 /\ adj_out[j].open = adj_in[j].open
                 /\ adj_out[j].close = adj_in[j].close
                 /\ adj_out[j].volume = adj_in[j].volume
                 /\ adj_out[j].symbol = adj_in[j].symbol
                 /\ RollsAfter(adj_in, j) = {} =>
                      adj_out[j].back_adjusted_close = adj_in[j].close

\* a frame with two rolls, whose first row carries both adjustments
C10_Witness ==
    /\ adjPc = "done"
    /\ Len(adj_in) = 3
    /\ Cardinality(RollsAfter(adj_in, 1)) = 2
    /\ adj_out[1].back_adjusted_close = adj_in[1].close + 3
    /\ adj_out[3].back_adjusted_close = adj_in[3].close

(***************************************************************************)
(* Properties of the streaming fetcher                                     *)
(***************************************************************************)
\* the waits of a linear backoff: the n-th wait is retry_interval * n
LinearBackoff == \A n \in 1..Len(waits) : waits[n] = retry_interval * n

\* the stream ended without any connect() having succeeded and without close()
EndedNeverConnected == stPc = "done" /\ ~connected /\ ~closed

\* C11 as stated: when every connection attempt fails, stream_data makes
\* exactly max_retries connection attempts, waits retry_interval * n before
\* the n-th retry, yields no record and terminates.
C11_ExactlyMaxRetriesAttempts ==
    EndedNeverConnected =>
        /\ attempts = max_retries
        /\ LinearBackoff
        /\ yielded = 0

\* C11 amended: when every connection attempt fails, stream_data makes one
\* first attempt and exactly max_retries retries (never more than
\* max_retries + 1 connect() calls), waits retry_interval * n before the
\* n-th retry, yields no record, and ends having given up.
C11_ReconnectBound ==
    /\ (~connected /\ ~closed) =>
          /\ attempts <= max_retries + 1
          /\ Len(waits) <= max_retries
          /\ LinearBackoff
          /\ yielded = 0
    /\ EndedNeverConnected =>
          /\ attempts = max_retries + 1
          /\ Len(waits) = max_retries
          /\ gave_up
          /\ ~should_reconnect

C11_Witness ==
    /\ EndedNeverConnected
    /\ max_retries = 2
    /\ attempts = 3
    /\ waits = <<retry_interval, 2 * retry_interval>>

\* C12: once more than max_retries sessions in a row have failed (in
\* connect, in start or while reading) with no record yielded in between,
\* the fetcher is in terminal Disconnected: should_reconnect is false.
C12_NoUnboundedRetry == failed > max_retries => ~should_reconnect

\* C13: a stream that gave up on its retries ends with an error; the
\* consumer does not see the plain end of iteration that close() produces.
C13_GiveUpSurfaced == gave_up => stream_end # "StopAsyncIteration"

(***************************************************************************)
(* Properties of construction and of the catalog load                      *)
(***************************************************************************)
\* a binding that is missing, or names an unknown module or class
BadBinding(b) == ~b.present \/ b.class # "known" \/ b.module # "known"

\* run() has done nothing: no task started, nothing fetched or persisted
NoTaskStarted ==
    /\ \A i \in Instruments :
         pc[i] = "new" /\ log[i] = <<>> /\ raw_data[i] = NoFrame
    /\ running = 0
    /\ connection = 0 /\ openConns = {}
    /\ rawTable = EmptyTable /\ cleanTable = EmptyTable

\* C14: if any of the four stage bindings is missing or names an unknown
\* module or class, Orchestrator construction raises (ValueError or
\* ImportError), run() never starts and nothing is fetched or persisted;
\* run() only ever runs with the four stages already resolved.
C14_RegistryFailFast ==
    /\ (\E s \in Stages : BadBinding(bindings[s])) =>
          /\ ctorPc # "constructed"
          /\ runPc = "start"
          /\ NoTaskStarted
    /\ ctorPc = "raised" =>
          /\ ctorExc \in {"ValueError", "ImportError"}
          /\ BadBinding(bindings[CtorOrder[Len(resolved) + 1]])
    /\ runPc # "start" =>
          /\ ctorPc = "constructed"
          /\ Len(resolved) = 4
          /\ \A k \in 1..4 : resolved[k].instance

C14_Witness ==
    /\ ctorPc = "raised"
    /\ ctorExc = "ImportError"
    /\ Len(resolved) = 3
    /\ bindings["inserter"].class = "unknown"

\* C15: when load_symbols raises, run() raises, the loader error counter is
\* incremented exactly once, no instrument task is started and the
\* last-successful-run gauge is not set.
C15_CatalogFailureFatal ==
    runExc = "Exception" =>
        /\ runPc = "raised"
        /\ STAGE_ERRORS[<<"loader", "Exception">>] = 1
        /\ \A l \in (Stages \X ExcTypes) \ {<<"loader", "Exception">>} :
              STAGE_ERRORS[l] = 0
        /\ NoTaskStarted
        /\ LAST_SUCCESSFUL_RUN = 0

C15_Witness ==
    /\ runPc = "raised"
    /\ runExc = "Exception"
    /\ STAGE_ERRORS[<<"loader", "Exception">>] = 1

(***************************************************************************)
(* Properties of determine_date_range                                      *)
(***************************************************************************)
\* C16: determine_date_range returns a window in every case: its start is
\* the configured start_date when present, else one day past the latest
\* persisted timestamp when the store is non-empty, else a default start;
\* its end is the configured end_date when present, else the current date.
C16_EffectiveWindow ==
    ddrPc = "done" =>
        /\ ddr_result.exc = "none"
        /\ Len(ddr_result.start) = 1
        /\ cfg_start # <<>> => ddr_result.start = cfg_start
        /\ (cfg_start = <<>> /\ store # {}) =>
              ddr_result.start = <<strftime(Max(store), "Daily") + DayTicks>>
        /\ ddr_result.end =
              IF cfg_end # <<>> THEN cfg_end ELSE <<strftime(now, "Daily")>>

(***************************************************************************)
(* Properties of a failing insert                                          *)
(***************************************************************************)
\* C17: an insert_data call that raises leaves the target table exactly as
\* it was before the call: no row of the failed batch remains persisted.
C17_FailedInsertAtomic ==
    [][(insCalls' = insCalls + 1 /\ insExc' # "none") =>
           cleanTable' = cleanTable]_vars

(***************************************************************************)
(* Properties of the cleaner                                               *)
(***************************************************************************)
\* the required fields the raw frame lacks once ts_event is taken as time
LacksRequired ==
    RequiredFields \
        ((cl_raw.columns \cup (IF cl_raw.index = "ts_event" THEN {"time"} ELSE {})
            \cup (IF "ts_event" \in cl_raw.columns THEN {"time"} ELSE {}))
         \ {"ts_event"})

CleanEnded == clPc \in {"returned", "raised"}

\* C18: clean raises a validation error (ValueError) whenever a required
\* field (time after renaming ts_event, symbol, open, high, low, close,
\* volume) is absent; then neither handle_missing_data nor transform_data
\* runs and no cleaned rows are returned.
C18_MissingFieldAborts ==
    (clPc # "idle" /\ LacksRequired # {}) =>
        /\ \A k \in DOMAIN cl_ran :
              cl_ran[k] \notin {"handle_missing_data", "transform_data"}
        /\ clPc # "returned"
        /\ cl_out = <<>>
        /\ CleanEnded => (clPc = "raised" /\ clExc = "ValueError")

C18_Witness ==
    /\ clPc = "raised"
    /\ cl_ran = <<"validate_fields">>
    /\ LacksRequired = {"volume"}
    /\ "ts_event" \in cl_raw.columns
    /\ Len(cl_raw.cells) = 2

\* only drop_nan is enabled
OnlyDropNan ==
    \A k \in DOMAIN MethodOrder :
        (cl_config.missing_data[MethodOrder[k]] = "True") <=> (MethodOrder[k] = "drop_nan")

\* positions of the rows of d with a null in one of the fields F
NullRows(d, F) == {j \in DOMAIN d : \E c \in F : d[j][c] = Null}

\* d without its row at position j
RemoveRow(d, j) ==
    [k \in 1..(Len(d) - 1) |-> IF k < j THEN d[k] ELSE d[k + 1]]

\* handle_missing_data has just returned: cl_raw.cells went in, cl_data came out
Handled == clPc = "transform"

\* C19 as stated: on a frame in which exactly one row contains a null numeric
\* field, handle_missing_data with only drop_nan enabled returns the frame
\* with exactly that row removed.
C19_DropsTheNullNumericRow ==
    (Handled /\ OnlyDropNan /\ Cardinality(NullRows(cl_raw.cells, NumericFields)) = 1) =>
        \E j \in NullRows(cl_raw.cells, NumericFields) :
            cl_data = RemoveRow(cl_raw.cells, j)

\* C19 amended: on a frame in which exactly one row contains a null, in any
\* column, handle_missing_data with only drop_nan enabled returns the frame
\* with exactly that row removed: one row fewer, the others unchanged and
\* in order.
C19_DropsTheNullRow ==
    (Handled /\ OnlyDropNan /\ Cardinality(NullRows(cl_raw.cells, RequiredFields)) = 1) =>
        /\ Len(cl_data) = Len(cl_raw.cells) - 1
        /\ \E j \in NullRows(cl_raw.cells, RequiredFields) :
              cl_data = RemoveRow(cl_raw.cells, j)

\* the middle row of three has a null numeric cell and is the one dropped
C19_Witness ==
    /\ Handled /\ OnlyDropNan
    /\ Len(cl_raw.cells) = 3
    /\ NullRows(cl_raw.cells, RequiredFields) = {2}
    /\ cl_raw.cells[2].open = Null
    /\ cl_data = <<cl_raw.cells[1], cl_raw.cells[3]>>

(***************************************************************************)
(* Properties of the catalog loader                                        *)
(***************************************************************************)
\* two rows of the catalog name the same symbol once blanks are stripped
SameSymbolTwice ==
    \E i, j \in DOMAIN csv_rows :
        i < j /\ strip(csv_rows[i].dataSymbol) = strip(csv_rows[j].dataSymbol)

\* C20: the catalog load_symbols returns has one entry per catalog row, with
\* pairwise distinct symbols; a catalog in which two rows name the same
\* symbol after whitespace normalization is rejected with an error.
C20_DistinctSymbols ==
    csvPc = "done" =>
        /\ SameSymbolTwice => csv_result.exc # "none"
        /\ csv_result.exc = "none" =>
              Cardinality(DOMAIN csv_result.symbols) = Len(csv_rows)


(***************************************************************************)
(* Properties of the instrument tasks: sharing, zero rows, symbols         *)
(***************************************************************************)
\* tasks that assigned the inserter's connection attribute (connect, close)
ConnectionWriters ==
    {i \in Instruments :
        \E k \in DOMAIN log[i] : log[i][k].stage \in {"connect", "close"}}

\* C21: instrument tasks share no mutable state other than the metrics
\* counters: the persistence connection held by the inserter is written by
\* at most one task.
C21_NoSharedConnection == Cardinality(ConnectionWriters) <= 1

Suspended(i) == pc[i] \in {"new", "await_fetch", "done"}

\* C27: the tasks share one inserter, yet under every interleaving at most
\* one connection is open and it belongs to the running task, no
\* connection is open while every task is suspended, a task's inserts and
\* clean run with the inserter holding the connection this task opened,
\* and a connection exists only between its owner's connect and close.
C27_ConnectionNeverShared ==
    /\ Cardinality(openConns) <= 1
    /\ running = 0 => (connection = 0 /\ openConns = {})
    /\ running # 0 => (connection \in {0, running} /\ openConns \subseteq {running})
    /\ \A i \in Instruments :
         /\ Suspended(i) => (i \notin openConns /\ connection # i)
         /\ pc[i] \in {"insert_raw", "clean", "insert_clean"} =>
              (running = i /\ connection = i /\ openConns = {i})
         /\ i \in openConns =>
              /\ CloseCount(i) = 0
              /\ \E k \in DOMAIN log[i] : log[i][k].stage = "connect"

\* a task holds its connection while another is suspended in its fetch,
\* after a third party (or the same other task earlier) has closed
C27_Witness ==
    \E i, j \in Instruments :
        /\ i # j
        /\ pc[i] = "insert_clean" /\ connection = i
        /\ pc[j] = "await_fetch"

\* the fetch of instrument i returned a frame without rows
ZeroRows(i) ==
    /\ Len(log[i]) >= 1
    /\ log[i][1] = Event("fetch", "ok")
    /\ raw_data[i].rows = <<>>

InserterErrors ==
    SumOver(ExcTypes, [k \in ExcTypes |-> STAGE_ERRORS[<<"inserter", k>>]])

HasRowOf(t, i) == \E k \in DOMAIN t : k[2] = i

OneSymbol(rows) == \A j, k \in DOMAIN rows : rows[j].symbol = rows[k].symbol

Unadjusted(r) ==
    /\ r.back_adjusted_open = r.open
    /\ r.back_adjusted_high = r.high
    /\ r.back_adjusted_low = r.low
    /\ r.back_adjusted_close = r.close

\* C29: every frame the fetcher returns carries one symbol on all its
\* rows, so back-adjustment finds no roll in it and every cleaned row has
\* back_adjusted_* equal to its raw prices.
C29_NoRollOnPipelineData ==
    \A i \in Instruments :
        /\ OneSymbol(raw_data[i].rows)
        /\ roll_factors(raw_data[i].rows, Len(raw_data[i].rows)) = <<>>
        /\ \A k \in DOMAIN cleaned_data[i] : Unadjusted(cleaned_data[i][k])

\* a frame with rising volume was cleaned and inserted
C29_Witness ==
    \E i \in Instruments :
        /\ RanAllStages(i)
        /\ Len(cleaned_data[i]) = 2
        /\ cleaned_data[i][2].volume > cleaned_data[i][1].volume
        /\ Unadjusted(cleaned_data[i][1])


(***************************************************************************)
(* Properties of the streaming fetcher: client and close                   *)
(***************************************************************************)
\* C26: whenever the streaming fetcher is waiting in its backoff sleep or
\* has ended (terminal Disconnected), its client is null.
C26_NoClientWhenDisconnected == stPc \in {"sleep", "done"} => client = 0

\* backing off after a session that had connected and yielded broke
C26_Witness ==
    /\ stPc = "sleep"
    /\ connected /\ yielded >= 1
    /\ client = 0
    /\ ~closed

\* C30: once close() has been called, stream_data opens no new connection
\* (no connect() call, the client stays null) in whichever state it was
\* suspended, and should_reconnect, once false, never becomes true again.
C30_CloseIsFinal ==
    [][/\ closed => (attempts' = attempts /\ client' = 0 /\ closed')
       /\ ~should_reconnect => ~should_reconnect']_vars

\* closed during a backoff sleep, the generator woke up and ended without
\* reconnecting although retries and attempts were left
C30_Witness ==
    /\ closed /\ ~gave_up
    /\ stPc = "done"
    /\ Len(waits) >= 1 /\ yielded = 0
    /\ retry_count < max_retries
    /\ attempts < MaxAttempts


(***************************************************************************)
(* Properties of the cleaner's output order                                *)
(***************************************************************************)
\* C22: for every frame that passes validation, the rows clean returns
\* for a symbol are strictly ascending in time, no two rows of the symbol
\* sharing a timestamp.
C22_StrictlyAscending ==
    clPc = "returned" =>
        \A j, k \in DOMAIN cl_out :
            (j < k /\ cl_out[j].symbol = cl_out[k].symbol) =>
                cl_out[j].time < cl_out[k].time


(***************************************************************************)
(* Properties of the planner example and of the batch fetch                *)
(***************************************************************************)
\* the length of a window in days
WindowDays(b) == (b[2] - b[1]) \div DayTicks

\* C24 as stated: for start 2023-01-01, end 2023-01-10, daily windows of
\* at most 3 units, generate_batches returns 4 windows of 3, 3, 3 and 1 days.
C24_ExampleFourWindows ==
    (PlannerExample /\ gbPc = "returned") =>
        /\ Len(batches) = 4
        /\ [k \in 1..4 |-> WindowDays(batches[k])] = <<3, 3, 3, 1>>

\* C24 amended: for that call generate_batches returns 3 windows of 3 days,
\* [01-01, 01-04], [01-04, 01-07], [01-07, 01-10]; the end date bounds the
\* last window and is not a day of its own.
C24_ExampleThreeWindows ==
    (PlannerExample /\ gbPc = "returned") =>
        batches = << <<0, 3 * DayTicks>>, <<3 * DayTicks, 6 * DayTicks>>,
                     <<6 * DayTicks, 9 * DayTicks>> >>

C24_Witness ==
    /\ PlannerExample
    /\ gbPc = "returned"
    /\ Len(batches) = 3
    /\ current_ts = gb_end

\* the frames of windows 1..n one after the other
RECURSIVE InWindowOrder(_, _)
InWindowOrder(rows, n) ==
    IF n = 0 THEN <<>> ELSE InWindowOrder(rows, n - 1) \o WindowRows(n, rows[n])

\* the frames of windows n, n-1, .., 1 one after the other
RECURSIVE NewestFirst(_, _)
NewestFirst(rows, n) ==
    IF n = 0 THEN <<>> ELSE WindowRows(n, rows[n]) \o NewestFirst(rows, n - 1)

Occurrences(frame, r) == Cardinality({q \in DOMAIN frame : frame[q] = r})

\* every fetched row is in the frame once, and nothing else is
NoRowLostOrDuplicated ==
    /\ \A k \in DOMAIN gf_rows : \A m \in 1..gf_rows[k] :
         Occurrences(master_df, [window |-> k, n |-> m]) = 1
    /\ Len(master_df) = SumOver(DOMAIN gf_rows, gf_rows)

\* fetch_data was called once per planned window, in the planned order
OncePerWindow ==
    /\ gf_calls = batches
    /\ Len(gf_rows) = Len(batches)

\* C25 as stated: generate_and_fetch_data calls fetch_data exactly once per
\* window in ascending window order and returns the per-window frames
\* concatenated in window order, no row lost or duplicated.
C25_ConcatInWindowOrder ==
    gfPc = "returned" =>
        /\ OncePerWindow
        /\ master_df = InWindowOrder(gf_rows, Len(gf_rows))
        /\ NoRowLostOrDuplicated

\* C25 amended: generate_and_fetch_data calls fetch_data exactly once per
\* window in ascending window order and returns the per-window frames
\* concatenated latest window first (each frame's rows in their own order),
\* no row lost or duplicated.
C25_ConcatNewestFirst ==
    /\ gfPc = "returned" =>
        /\ OncePerWindow
        /\ master_df = NewestFirst(gf_rows, Len(gf_rows))
        /\ NoRowLostOrDuplicated
    /\ gfPc = "call" =>
        /\ Len(gf_calls) <= Len(batches)
        /\ \A k \in DOMAIN gf_calls : gf_calls[k] = batches[k]

C25_Witness ==
    /\ gfPc = "returned"
    /\ Len(batches) >= 2
    /\ gf_rows[1] = 2 /\ gf_rows[2] >= 1
    /\ master_df[Len(master_df)] = [window |-> 1, n |-> 2]


(***************************************************************************)
(* Properties of the completeness gauge                                    *)
(***************************************************************************)
\* the step completes the clean insert of instrument i
CleanInsertSucceeds(i) ==
    /\ Len(log'[i]) = Len(log[i]) + 1
    /\ log'[i][Len(log'[i])] = Event("insert_clean", "ok")

\* rows the step adds to the clean table
RowsInserted == Cardinality(DOMAIN cleanTable') - Cardinality(DOMAIN cleanTable)

\* C23: a step that completes the clean insert of an instrument, with an
\* expectation configured (expected_rows_per_asset > 0), sets the
\* instrument's completeness gauge to (rows the insert actually added to
\* the clean table) / expected_rows_per_asset; no other step sets the
\* gauge, so without an expectation it is never set.
C23_CompletenessCountsInserted ==
    [][\A i \in Instruments :
          IF CleanInsertSucceeds(i) /\ expected_rows > 0
          THEN DATA_COMPLETENESS'[i] =
                  <<completeness_ratio(RowsInserted, expected_rows)>>
          ELSE DATA_COMPLETENESS'[i] = DATA_COMPLETENESS[i]]_vars

====
